---- MODULE Spec2Model ----
(***************************************************************************)
(* A model of the light-transport core of kazijawad/bonsai: the hittable   *)
(* variants (axis-aligned rectangles, sphere, ordered list), the material  *)
(* variants, the PDF variants and the recursive estimator ray_color.       *)
(*                                                                         *)
(* C++ doubles are modelled as extended rationals <<n, d>>:                *)
(*   d > 0  the finite value n/d in lowest terms,                          *)
(*   <<1,0>> = +infinity, <<-1,0>> = -infinity, <<0,0>> = NaN,             *)
(* with the IEEE-754 rules for infinities and NaN (every comparison with   *)
(* NaN is false, x/0 is an infinity, 0/0 and inf*0 are NaN).  Rounding is  *)
(* not modelled; the inputs are small rationals.  Zero is unsigned.        *)
(***************************************************************************)
EXTENDS Integers, Sequences, FiniteSets, TLC

-----------------------------------------------------------------------------
(* double arithmetic                                                       *)

\* the value of a one-element set; Only({e(x) : x \in {a}}) is e(a) with the
\* operand a computed once, the way a C++ call computes its arguments
Only(S) == CHOOSE x \in S : TRUE

Abs(i) == IF i < 0 THEN -i ELSE i

Sign(i) == IF i < 0 THEN -1 ELSE IF i > 0 THEN 1 ELSE 0

RECURSIVE GCD(_, _)
GCD(a, b) == IF b = 0 THEN a ELSE Only({GCD(b, m) : m \in {a % b}})

\* the double n/d, d any integer (d = 0 gives an infinity or NaN)
Norm(n, d) ==
    IF d = 0 THEN <<Sign(n), 0>>
    ELSE Only({<<(Sign(d) * n) \div g, (Sign(d) * d) \div g>> : g \in {GCD(Abs(n), Abs(d))}})

R(n, d) == Norm(n, d)
I(n)    == <<n, 1>>

Zero   == <<0, 1>>
One    == <<1, 1>>
Half   == <<1, 2>>
PosInf == <<1, 0>>
NegInf == <<-1, 0>>
NaN    == <<0, 0>>

IsNaN(a)    == a = NaN
IsInf(a)    == a[2] = 0 /\ a[1] # 0
IsFinite(a) == a[2] > 0

FNeg(a) == Only({<<-x[1], x[2]>> : x \in {a}})

FAdd(a, b) ==
    Only({ IF IsNaN(x) \/ IsNaN(y) THEN NaN
           ELSE IF IsInf(x) /\ IsInf(y) THEN (IF x = y THEN x ELSE NaN)
           ELSE IF IsInf(x) THEN x
           ELSE IF IsInf(y) THEN y
           ELSE Only({ Norm(x[1] * (y[2] \div g) + y[1] * (x[2] \div g),
                            x[2] * (y[2] \div g)) : g \in {GCD(x[2], y[2])} })
           : x \in {a}, y \in {b} })

FSub(a, b) == FAdd(a, FNeg(b))

FMul(a, b) ==
    Only({ IF ~IsFinite(x) \/ ~IsFinite(y) THEN Norm(x[1] * y[1], x[2] * y[2])
           ELSE Only({ Norm((x[1] \div g1) * (y[1] \div g2),
                            (x[2] \div g2) * (y[2] \div g1))
                       : g1 \in {GCD(Abs(x[1]), y[2])}, g2 \in {GCD(Abs(y[1]), x[2])} })
           : x \in {a}, y \in {b} })

FDiv(a, b) ==
    Only({ IF IsNaN(x) \/ IsNaN(y) THEN NaN
           ELSE IF IsInf(x) /\ IsInf(y) THEN NaN
           ELSE IF IsInf(x) THEN (IF y[1] < 0 THEN FNeg(x) ELSE x)
           ELSE IF IsInf(y) THEN Zero
           ELSE FMul(x, Norm(y[2], y[1]))
           : x \in {a}, y \in {b} })

\* a < b on doubles: false whenever an operand is NaN
FLt(a, b) ==
    Only({ IF IsNaN(x) \/ IsNaN(y) THEN FALSE
           ELSE IF IsInf(x) /\ IsInf(y) THEN x[1] < y[1]
           ELSE IF IsInf(x) THEN x[1] < 0
           ELSE IF IsInf(y) THEN y[1] > 0
           ELSE Only({ x[1] * (y[2] \div g) < y[1] * (x[2] \div g)
                       : g \in {GCD(x[2], y[2])} })
           : x \in {a}, y \in {b} })

FGt(a, b) == FLt(b, a)
FLe(a, b) == Only({~IsNaN(x) /\ ~IsNaN(y) /\ ~FLt(y, x) : x \in {a}, y \in {b}})
FGe(a, b) == FLe(b, a)

\* fmin/fmax of <cmath>: a NaN operand is ignored
FMin(a, b) ==
    Only({ IF IsNaN(x) THEN y ELSE IF IsNaN(y) THEN x ELSE IF FLt(y, x) THEN y ELSE x
           : x \in {a}, y \in {b} })
FMax(a, b) ==
    Only({ IF IsNaN(x) THEN y ELSE IF IsNaN(y) THEN x ELSE IF FLt(x, y) THEN y ELSE x
           : x \in {a}, y \in {b} })

FAbs(a) == Only({<<Abs(x[1]), x[2]>> : x \in {a}})

RECURSIVE FPow(_, _)
FPow(a, k) == IF k = 0 THEN One ELSE FMul(a, FPow(a, k - 1))

\* the largest r in lo..hi with r*r <= v, by bisection
RECURSIVE ISqrtIn(_, _, _)
ISqrtIn(v, lo, hi) ==
    IF lo >= hi THEN lo
    ELSE Only({ IF mid * mid <= v THEN ISqrtIn(v, mid, hi) ELSE ISqrtIn(v, lo, mid - 1)
                : mid \in {(lo + hi + 1) \div 2} })

ISqrt(v) == Only({ISqrtIn(x, 0, IF x < 46340 THEN x ELSE 46340) : x \in {v}})

IsSquare(v) == Only({r * r = v : r \in {ISqrt(v)}})

\* sqrt of <cmath>: exact on squares of rationals, otherwise rounded down to
\* a multiple of 1/1000; NaN on a negative operand
FSqrt(a) ==
    Only({ IF IsNaN(x) \/ x[1] < 0 THEN NaN
           ELSE IF IsInf(x) THEN x
           ELSE IF IsSquare(x[1]) /\ IsSquare(x[2]) THEN Norm(ISqrt(x[1]), ISqrt(x[2]))
           ELSE Norm(ISqrt((x[1] * 1000000) \div x[2]), 1000)
           : x \in {a} })

-----------------------------------------------------------------------------
(* vec3                                                                    *)

V(x, y, z) == <<x, y, z>>
VI(x, y, z) == <<I(x), I(y), I(z)>>

VAdd(a, b) ==
    Only({<<FAdd(x[1], y[1]), FAdd(x[2], y[2]), FAdd(x[3], y[3])>> : x \in {a}, y \in {b}})
VSub(a, b) ==
    Only({<<FSub(x[1], y[1]), FSub(x[2], y[2]), FSub(x[3], y[3])>> : x \in {a}, y \in {b}})
VNeg(a) == Only({<<FNeg(x[1]), FNeg(x[2]), FNeg(x[3])>> : x \in {a}})
VScale(t, a) ==
    Only({<<FMul(s, x[1]), FMul(s, x[2]), FMul(s, x[3])>> : s \in {t}, x \in {a}})
VMul(a, b) ==
    Only({<<FMul(x[1], y[1]), FMul(x[2], y[2]), FMul(x[3], y[3])>> : x \in {a}, y \in {b}})
VDivS(a, t) == VScale(FDiv(One, t), a)
Dot(a, b) ==
    Only({ FAdd(FAdd(FMul(x[1], y[1]), FMul(x[2], y[2])), FMul(x[3], y[3]))
           : x \in {a}, y \in {b} })
LengthSquared(a) == Only({Dot(x, x) : x \in {a}})
Length(a) == FSqrt(LengthSquared(a))
UnitVector(a) == Only({VDivS(x, Length(x)) : x \in {a}})
VHasNaN(a) == IsNaN(a[1]) \/ IsNaN(a[2]) \/ IsNaN(a[3])

\* v - 2*dot(v,n)*n
Reflect(v, n) ==
    Only({VSub(x, VScale(FMul(I(2), Dot(x, y)), y)) : x \in {v}, y \in {n}})

-----------------------------------------------------------------------------
(* ray.h                                                                   *)

Ray(o, d, tm) == [origin |-> o, direction |-> d, time |-> tm]

\* ray() {}: the two vec3 members are default-constructed, the zero vector;
\* the time has no initialiser and holds no value
DefaultRay == Ray(VI(0, 0, 0), VI(0, 0, 0), "undef")

At(r, t) == VAdd(r.origin, VScale(t, r.direction))

-----------------------------------------------------------------------------
(* hittable.h: hit_record                                                  *)

\* a shared_ptr<material> that points at nothing
NullMaterial == [kind |-> "null"]

\* a hit_record nothing has been stored in yet: p and normal are
\* default-constructed vectors, mat a default-constructed (null) pointer, and
\* t, u, v, front_face have no initialiser and hold no value
UndefRec == [p |-> VI(0, 0, 0), normal |-> VI(0, 0, 0), mat |-> NullMaterial,
             t |-> "undef", u |-> "undef", v |-> "undef", front_face |-> "undef"]

set_face_normal(rec, r, outward_normal) ==
    LET ff == FLt(Dot(r.direction, outward_normal), Zero)
    IN  [rec EXCEPT !.front_face = ff,
                    !.normal = IF ff THEN outward_normal ELSE VNeg(outward_normal)]

\* the result of a hit call: the return value and the out-parameter
Ret(h, rec) == [hit |-> h, rec |-> rec]

-----------------------------------------------------------------------------
(* aarect.h                                                                *)

XYRect(x0, x1, y0, y1, k, mat) ==
    [kind |-> "xyrect", a0 |-> x0, a1 |-> x1, b0 |-> y0, b1 |-> y1, k |-> k, mat |-> mat]
XZRect(x0, x1, z0, z1, k, mat) ==
    [kind |-> "xzrect", a0 |-> x0, a1 |-> x1, b0 |-> z0, b1 |-> z1, k |-> k, mat |-> mat]
YZRect(y0, y1, z0, z1, k, mat) ==
    [kind |-> "yzrect", a0 |-> y0, a1 |-> y1, b0 |-> z0, b1 |-> z1, k |-> k, mat |-> mat]

xyrect_hit(o, r, t_min, t_max, record) ==
    LET t == FDiv(FSub(o.k, r.origin[3]), r.direction[3])
        x == FAdd(r.origin[1], FMul(t, r.direction[1]))
        y == FAdd(r.origin[2], FMul(t, r.direction[2]))
    IN  IF FLt(t, t_min) \/ FGt(t, t_max) THEN Ret(FALSE, record)
        ELSE IF FLt(x, o.a0) \/ FGt(x, o.a1) \/ FLt(y, o.b0) \/ FGt(y, o.b1)
             THEN Ret(FALSE, record)
        ELSE Ret(TRUE,
                 [set_face_normal(
                     [record EXCEPT !.u = FDiv(FSub(x, o.a0), FSub(o.a1, o.a0)),
                                    !.v = FDiv(FSub(y, o.b0), FSub(o.b1, o.b0)),
                                    !.t = t],
                     r, VI(0, 0, 1))
                  EXCEPT !.mat = o.mat, !.p = At(r, t)])

xzrect_hit(o, r, t_min, t_max, record) ==
    LET t == FDiv(FSub(o.k, r.origin[2]), r.direction[2])
        x == FAdd(r.origin[1], FMul(t, r.direction[1]))
        z == FAdd(r.origin[3], FMul(t, r.direction[3]))
    IN  IF FLt(t, t_min) \/ FGt(t, t_max) THEN Ret(FALSE, record)
        ELSE IF FLt(x, o.a0) \/ FGt(x, o.a1) \/ FLt(z, o.b0) \/ FGt(z, o.b1)
             THEN Ret(FALSE, record)
        ELSE Ret(TRUE,
                 [set_face_normal(
                     [record EXCEPT !.u = FDiv(FSub(x, o.a0), FSub(o.a1, o.a0)),
                                    !.v = FDiv(FSub(z, o.b0), FSub(o.b1, o.b0)),
                                    !.t = t],
                     r, VI(0, 1, 0))
                  EXCEPT !.mat = o.mat, !.p = At(r, t)])

\* the outward normal yzrect::hit passes to set_face_normal
yzrect_outward == VI(0, 1, 0)

yzrect_hit(o, r, t_min, t_max, record) ==
    LET t == FDiv(FSub(o.k, r.origin[1]), r.direction[1])
        y == FAdd(r.origin[2], FMul(t, r.direction[2]))
        z == FAdd(r.origin[3], FMul(t, r.direction[3]))
    IN  IF FLt(t, t_min) \/ FGt(t, t_max) THEN Ret(FALSE, record)
        ELSE IF FLt(y, o.a0) \/ FGt(y, o.a1) \/ FLt(z, o.b0) \/ FGt(z, o.b1)
             THEN Ret(FALSE, record)
        ELSE Ret(TRUE,
                 [set_face_normal(
                     [record EXCEPT !.u = FDiv(FSub(y, o.a0), FSub(o.a1, o.a0)),
                                    !.v = FDiv(FSub(z, o.b0), FSub(o.b1, o.b0)),
                                    !.t = t],
                     r, yzrect_outward)
                  EXCEPT !.mat = o.mat, !.p = At(r, t)])

-----------------------------------------------------------------------------
(* sphere.h                                                                *)

Sphere(c, radius, mat) == [kind |-> "sphere", center |-> c, radius |-> radius, mat |-> mat]

\* get_sphere_uv takes acos and atan2 of the outward normal: both angles are
\* kept symbolic, as a value that names the function and its argument
get_sphere_uv(p) == [u |-> <<0, 0, "phi/2pi", p>>, v |-> <<0, 0, "theta/pi", p>>]

sphere_hit(o, r, t0, t1, hitting) ==
    LET oc     == VSub(r.origin, o.center)
        a      == LengthSquared(r.direction)
        half_b == Dot(oc, r.direction)
        c      == FSub(LengthSquared(oc), FMul(o.radius, o.radius))
        discriminant == FSub(FMul(half_b, half_b), FMul(a, c))
        sqrtd  == FSqrt(discriminant)
        root1  == FDiv(FSub(FNeg(half_b), sqrtd), a)
        root2  == FDiv(FAdd(FNeg(half_b), sqrtd), a)
        out1   == FLt(root1, t0) \/ FGt(root1, t1)
        out2   == FLt(root2, t0) \/ FGt(root2, t1)
        root   == IF out1 THEN root2 ELSE root1
        p      == At(r, root)
        outward_normal == VDivS(VSub(p, o.center), o.radius)
        uv     == get_sphere_uv(outward_normal)
    IN  IF FLt(discriminant, Zero) THEN Ret(FALSE, hitting)
        ELSE IF out1 /\ out2 THEN Ret(FALSE, hitting)
        ELSE Ret(TRUE,
                 [set_face_normal([hitting EXCEPT !.t = root, !.p = p], r, outward_normal)
                  EXCEPT !.u = uv.u, !.v = uv.v, !.mat = o.mat])

-----------------------------------------------------------------------------
(* hittable_list.h                                                         *)

HittableList(objects) == [kind |-> "list", objects |-> objects]

\* virtual dispatch of hittable::hit on the members a list can hold
member_hit(o, r, t_min, t_max, rec) ==
    CASE o.kind = "xyrect" -> xyrect_hit(o, r, t_min, t_max, rec)
      [] o.kind = "xzrect" -> xzrect_hit(o, r, t_min, t_max, rec)
      [] o.kind = "yzrect" -> yzrect_hit(o, r, t_min, t_max, rec)
      [] o.kind = "sphere" -> sphere_hit(o, r, t_min, t_max, rec)

\* a list that never tightens the bound: closest_so_far stays t_max
list_next_bound_keep(closest_so_far, t) == closest_so_far

\* the bound hittable_list::hit passes to the next member after a hit
list_next_bound(closest_so_far, t) == t

\* the loop of hittable_list::hit from member i on; res is the member's
\* answer, computed once per iteration as the code computes it
RECURSIVE list_hit_loop(_, _, _, _, _, _, _, _)
list_hit_loop(objects, i, r, t_min, closest_so_far, temp, hitting, hit_anything) ==
    IF i > Len(objects) THEN Ret(hit_anything, hitting)
    ELSE Only({ IF res.hit
                THEN list_hit_loop(objects, i + 1, r, t_min,
                                   list_next_bound(closest_so_far, res.rec.t),
                                   res.rec, res.rec, TRUE)
                ELSE list_hit_loop(objects, i + 1, r, t_min, closest_so_far,
                                   res.rec, hitting, hit_anything)
                : res \in {member_hit(objects[i], r, t_min, closest_so_far, temp)} })

hittable_list_hit(o, r, t_min, t_max, hitting) ==
    list_hit_loop(o.objects, 1, r, t_min, t_max, UndefRec, hitting, FALSE)

-----------------------------------------------------------------------------
(* aabb.h, and bounding_box of the shapes the wrappers hold                *)

Aabb(a, b) == [min |-> a, max |-> b]

\* virtual dispatch of hittable::bounding_box on the shapes a wrapper can hold
shape_bounding_box(o) ==
    CASE o.kind = "sphere" ->
            Aabb(VSub(o.center, V(o.radius, o.radius, o.radius)),
                 VAdd(o.center, V(o.radius, o.radius, o.radius)))
      [] o.kind = "xyrect" ->
            Aabb(V(o.a0, o.b0, FSub(o.k, R(1, 10000))), V(o.a1, o.b1, FAdd(o.k, R(1, 10000))))
      [] o.kind = "xzrect" ->
            Aabb(V(o.a0, FSub(o.k, R(1, 10000)), o.b0), V(o.a1, FAdd(o.k, R(1, 10000)), o.b1))
      [] o.kind = "yzrect" ->
            Aabb(V(FSub(o.k, R(1, 10000)), o.a0, o.b0), V(FAdd(o.k, R(1, 10000)), o.a1, o.b1))

-----------------------------------------------------------------------------
(* hittable.h: translate                                                   *)

Translate(obj, p) == [kind |-> "translate", ref |-> obj, position |-> p]

\* the ray translate::hit hands to the shape it holds
translated_ray(o, r) == Ray(VSub(r.origin, o.position), r.direction, r.time)

translate_hit(o, r, t_min, t_max, rec) ==
    Only({ IF ~res.hit THEN Ret(FALSE, res.rec)
           ELSE Ret(TRUE, set_face_normal([res.rec EXCEPT !.p = VAdd(@, o.position)],
                                          translated_ray(o, r), res.rec.normal))
           : res \in {member_hit(o.ref, translated_ray(o, r), t_min, t_max, rec)} })

translate_bounding_box(o) ==
    Only({Aabb(VAdd(b.min, o.position), VAdd(b.max, o.position))
          : b \in {shape_bounding_box(o.ref)}})

-----------------------------------------------------------------------------
(* hittable.h: rotate_y                                                    *)

\* the map rotate_y::hit applies to the ray's origin and direction
rotate_to_object(sin_theta, cos_theta, v) ==
    <<FSub(FMul(cos_theta, v[1]), FMul(sin_theta, v[3])), v[2],
      FAdd(FMul(sin_theta, v[1]), FMul(cos_theta, v[3]))>>

\* the map rotate_y::hit applies to the hit position and normal
rotate_to_world(sin_theta, cos_theta, v) ==
    <<FAdd(FMul(cos_theta, v[1]), FMul(sin_theta, v[3])), v[2],
      FAdd(FMul(FNeg(sin_theta), v[1]), FMul(cos_theta, v[3]))>>

\* tester: the corner (i, j, k) of the box, rotated by the constructor
rotate_corner(sin_theta, cos_theta, box, i, j, k) ==
    Only({ <<FAdd(FMul(cos_theta, x), FMul(sin_theta, z)), y,
             FAdd(FMul(FNeg(sin_theta), x), FMul(cos_theta, z))>>
           : x \in {FAdd(FMul(I(i), box.max[1]), FMul(I(1 - i), box.min[1]))},
             y \in {FAdd(FMul(I(j), box.max[2]), FMul(I(1 - j), box.min[2]))},
             z \in {FAdd(FMul(I(k), box.max[3]), FMul(I(1 - k), box.min[3]))} })

\* the three nested loops of the constructor, as one loop over n = 4i + 2j + k
RECURSIVE rotate_y_bounds(_, _, _, _, _, _)
rotate_y_bounds(sin_theta, cos_theta, box, n, min, max) ==
    IF n > 7 THEN Aabb(min, max)
    ELSE Only({ rotate_y_bounds(sin_theta, cos_theta, box, n + 1,
                    <<FMin(min[1], tester[1]), FMin(min[2], tester[2]),
                      FMin(min[3], tester[3])>>,
                    <<FMax(max[1], tester[1]), FMax(max[2], tester[2]),
                      FMax(max[3], tester[3])>>)
                : tester \in {rotate_corner(sin_theta, cos_theta, box,
                                            n \div 4, (n \div 2) % 2, n % 2)} })

\* sin(degrees_to_radians(angle)) and cos(degrees_to_radians(angle)) as the
\* constructor stores them.  The angle 0 is the one angle for which the two
\* doubles are rationals of this model (0 and 1, and every product with them
\* is exact); for any other angle libm returns doubles that are not (cos of
\* 90 degrees is 6.1e-17, not 0), and the rounded products decide the
\* comparisons of the held shape.  Those angles are outside the model.
sin_theta_of(angle) == CASE angle = 0 -> Zero
cos_theta_of(angle) == CASE angle = 0 -> One

\* rotate_y::rotate_y
RotateY(obj, angle) ==
    Only({ [kind |-> "rotate_y", ref |-> obj, sin_theta |-> sn, cos_theta |-> cs,
            bounded |-> TRUE,
            bbox |-> rotate_y_bounds(sn, cs, shape_bounding_box(obj), 0,
                                     V(PosInf, PosInf, PosInf),
                                     V(NegInf, NegInf, NegInf))]
           : sn \in {sin_theta_of(angle)}, cs \in {cos_theta_of(angle)} })

\* the ray rotate_y::hit hands to the shape it holds
rotated_ray(o, r) ==
    Ray(rotate_to_object(o.sin_theta, o.cos_theta, r.origin),
        rotate_to_object(o.sin_theta, o.cos_theta, r.direction), r.time)

\* rotate_y::hit
rotate_y_hit(o, r, t_min, t_max, rec) ==
    Only({ IF ~res.hit THEN Ret(FALSE, res.rec)
           ELSE Ret(TRUE,
                    set_face_normal(
                        [res.rec EXCEPT
                            !.p = rotate_to_world(o.sin_theta, o.cos_theta, res.rec.p)],
                        rotated_ray(o, r),
                        rotate_to_world(o.sin_theta, o.cos_theta, res.rec.normal)))
           : res \in {member_hit(o.ref, rotated_ray(o, r), t_min, t_max, rec)} })

-----------------------------------------------------------------------------
(* moving_sphere.h                                                         *)

MovingSphere(c0, c1, t0, t1, radius, mat) ==
    [kind |-> "moving_sphere", center0 |-> c0, center1 |-> c1, time0 |-> t0,
     time1 |-> t1, radius |-> radius, mat |-> mat]

moving_sphere_center(o, time) ==
    VAdd(o.center0, VScale(FDiv(FSub(time, o.time0), FSub(o.time1, o.time0)),
                           VSub(o.center0, o.center1)))

moving_sphere_hit(o, r, t_min, t_max, rec) ==
    LET center == moving_sphere_center(o, r.time)
        oc     == VSub(r.origin, center)
        a      == LengthSquared(r.direction)
        half_b == Dot(oc, r.direction)
        c      == FSub(LengthSquared(oc), FMul(o.radius, o.radius))
        discriminant == FSub(FMul(half_b, half_b), FMul(a, c))
        sqrtd  == FSqrt(discriminant)
        root1  == FDiv(FSub(FNeg(half_b), sqrtd), a)
        root2  == FDiv(FAdd(FNeg(half_b), sqrtd), a)
        out1   == FLt(root1, t_min) \/ FGt(root1, t_max)
        out2   == FLt(root2, t_min) \/ FGt(root2, t_max)
        root   == IF out1 THEN root2 ELSE root1
        p      == At(r, root)
        outward_normal == VDivS(VSub(p, center), o.radius)
    IN  IF FLt(discriminant, Zero) THEN Ret(FALSE, rec)
        ELSE IF out1 /\ out2 THEN Ret(FALSE, rec)
        ELSE Ret(TRUE,
                 [set_face_normal([rec EXCEPT !.t = root, !.p = p], r, outward_normal)
                  EXCEPT !.mat = o.mat])

\* aabb::surrounding_box
surrounding_box(box0, box1) ==
    Aabb(<<FMin(box0.min[1], box1.min[1]), FMin(box0.min[2], box1.min[2]),
           FMin(box0.min[3], box1.min[3])>>,
         <<FMax(box0.max[1], box1.max[1]), FMax(box0.max[2], box1.max[2]),
           FMax(box0.max[3], box1.max[3])>>)

moving_sphere_bounding_box(o, t0, t1) ==
    Only({ surrounding_box(
              Aabb(VSub(ca, V(o.radius, o.radius, o.radius)),
                   VAdd(ca, V(o.radius, o.radius, o.radius))),
              Aabb(VSub(cb, V(o.radius, o.radius, o.radius)),
                   VAdd(cb, V(o.radius, o.radius, o.radius))))
           : ca \in {moving_sphere_center(o, t0)}, cb \in {moving_sphere_center(o, t1)} })

-----------------------------------------------------------------------------
(* utils.h, vec3.h                                                         *)

\* pi, as a rational
Pi == R(355, 113)

\* 0.001, the lower end of the interval ray_color and sphere::pdf_value intersect in
TMin == R(1, 1000)

\* vec3(): the zero vector
Black == VI(0, 0, 0)

\* refract of vec3.h (Snell's law)
Refract(uv, n, etai_over_etat) ==
    LET cos_theta == FMin(Dot(VNeg(uv), n), One)
        r_out_perp == VScale(etai_over_etat, VAdd(uv, VScale(cos_theta, n)))
        r_out_parallel ==
            VScale(FNeg(FSqrt(FAbs(FSub(One, LengthSquared(r_out_perp))))), n)
    IN  VAdd(r_out_perp, r_out_parallel)

-----------------------------------------------------------------------------
(* texture.h                                                               *)

SolidColor(c) == [kind |-> "solid_color", color |-> c]

texture_value(tex, u, v, p) == tex.color

-----------------------------------------------------------------------------
(* pdf.h                                                                   *)

NullPdf == [kind |-> "null"]

\* cosine_pdf(w): the frame's principal axis is the unit vector along w
CosinePdf(w) == [kind |-> "cosine_pdf", w |-> UnitVector(w)]

HittablePdf(p, o) == [kind |-> "hittable_pdf", ref |-> p, origin |-> o]

MixturePdf(p0, p1) == [kind |-> "mixture_pdf", pdfs |-> <<p0, p1>>]

\* a cosine density without the clamp at the horizon
cosine_pdf_value_unclamped(pd, direction) ==
    FDiv(FAbs(Dot(UnitVector(direction), pd.w)), Pi)

cosine_pdf_value(pd, direction) ==
    LET cosine == Dot(UnitVector(direction), pd.w)
    IN  IF FLe(cosine, Zero) THEN Zero ELSE FDiv(cosine, Pi)

sphere_pdf_value(o, origin, direction) ==
    LET res == sphere_hit(o, Ray(origin, direction, Zero), TMin, PosInf, UndefRec)
        cos_theta_max ==
            FSqrt(FSub(One, FDiv(FMul(o.radius, o.radius),
                                 LengthSquared(VSub(o.center, origin)))))
        solid_angle == FMul(FMul(I(2), Pi), FSub(One, cos_theta_max))
    IN  IF ~res.hit THEN Zero ELSE FDiv(One, solid_angle)

\* a list that sums the densities without weighting them
list_weight_one(n) == One

\* the weight hittable_list::pdf_value gives each of n members
list_weight(n) == FDiv(One, I(n))

RECURSIVE list_pdf_loop(_, _, _, _, _, _)
list_pdf_loop(objects, i, weight, sum, origin, direction) ==
    IF i > Len(objects) THEN sum
    ELSE Only({ list_pdf_loop(objects, i + 1, weight, next, origin, direction)
                : next \in {FAdd(sum, FMul(weight, sphere_pdf_value(objects[i], origin,
                                                                    direction)))} })

hittable_list_pdf_value(o, origin, direction) ==
    list_pdf_loop(o.objects, 1, list_weight(Len(o.objects)), Zero, origin, direction)

hittable_pdf_value(pd, direction) == hittable_list_pdf_value(pd.ref, pd.origin, direction)

component_value(pd, direction) ==
    CASE pd.kind = "cosine_pdf"   -> cosine_pdf_value(pd, direction)
      [] pd.kind = "hittable_pdf" -> hittable_pdf_value(pd, direction)

\* a mixture that reads pdfs[0] twice
mixture_pdf_value_first(pd, direction) ==
    FAdd(FMul(Half, component_value(pd.pdfs[1], direction)),
         FMul(Half, component_value(pd.pdfs[1], direction)))

mixture_pdf_value(pd, direction) ==
    FAdd(FMul(Half, component_value(pd.pdfs[1], direction)),
         FMul(Half, component_value(pd.pdfs[2], direction)))

\* mixture_pdf::generate: the index of the component that generates, given
\* the value random_double() returned
mixture_pdf_pick(rnd) == IF FLt(rnd, Half) THEN 1 ELSE 2

-----------------------------------------------------------------------------
(* material.h                                                              *)

Lambertian(c)   == [kind |-> "lambertian", map |-> SolidColor(c)]
Metal(c, f)     == [kind |-> "metal", color |-> c, fuzz |-> IF FLt(f, One) THEN f ELSE One]
Dielectric(ior) == [kind |-> "dielectric", ior |-> ior]
DiffuseLight(c) == [kind |-> "diffuse_light", map |-> SolidColor(c)]
Isotropic(c)    == [kind |-> "isotropic", map |-> SolidColor(c)]

\* a default-constructed scatter_record: specular is ray(), attenuation is
\* vec3(), distribution is a null pointer, and is_specular holds no value
UndefScatter == [specular |-> DefaultRay, is_specular |-> "undef",
                 attenuation |-> Black, distribution |-> NullPdf]

SRet(ok, scattering) == [ok |-> ok, scattering |-> scattering]

material_emitted(m, r, hit, u, v, p) ==
    IF m.kind = "diffuse_light"
    THEN (IF ~hit.front_face THEN Black ELSE texture_value(m.map, u, v, p))
    ELSE Black

lambertian_scatter(m, r, hit, scattering) ==
    SRet(TRUE, [scattering EXCEPT !.is_specular = FALSE,
                                  !.attenuation = texture_value(m.map, hit.u, hit.v, hit.p),
                                  !.distribution = CosinePdf(hit.normal)])

lambertian_scattering_pdf(m, r, hit, scattered) ==
    LET cosine == Dot(hit.normal, UnitVector(scattered.direction))
    IN  IF FLt(cosine, Zero) THEN Zero ELSE FDiv(cosine, Pi)

\* virtual dispatch of material::scattering_pdf
material_scattering_pdf(m, r, hit, scattered) ==
    IF m.kind = "lambertian" THEN lambertian_scattering_pdf(m, r, hit, scattered) ELSE Zero

\* rnd: the point random_in_unit_sphere() returned
metal_scatter(m, r, hit, scattering, rnd) ==
    LET reflected == Reflect(UnitVector(r.direction), hit.normal)
    IN  SRet(TRUE, [scattering EXCEPT
                      !.specular = Ray(hit.p, VAdd(reflected, VScale(m.fuzz, rnd)), Zero),
                      !.attenuation = m.color,
                      !.is_specular = TRUE,
                      !.distribution = NullPdf])

reflectance(cosine, ref_idx) ==
    LET r0 == FDiv(FSub(One, ref_idx), FAdd(One, ref_idx))
        r0sq == FMul(r0, r0)
    IN  FAdd(r0sq, FMul(FSub(One, r0sq), FPow(FSub(One, cosine), 5)))

\* a dielectric that takes the index on the front face and 1/index inside
refraction_ratio_swapped(m, hit) == IF hit.front_face THEN m.ior ELSE FDiv(One, m.ior)

refraction_ratio(m, hit) == IF hit.front_face THEN FDiv(One, m.ior) ELSE m.ior

cannot_refract(ratio, sin_theta) == FGt(FMul(ratio, sin_theta), One)

\* rnd: the value random_double() returned
dielectric_reflects(m, r, hit, rnd) ==
    LET ratio == refraction_ratio(m, hit)
        unit_direction == UnitVector(r.direction)
        cos_theta == FMin(Dot(VNeg(unit_direction), hit.normal), One)
        sin_theta == FSqrt(FSub(One, FMul(cos_theta, cos_theta)))
    IN  cannot_refract(ratio, sin_theta) \/ FGt(reflectance(cos_theta, ratio), rnd)

dielectric_scatter(m, r, hit, scattering, rnd) ==
    LET ratio == refraction_ratio(m, hit)
        unit_direction == UnitVector(r.direction)
        direction == IF dielectric_reflects(m, r, hit, rnd)
                     THEN Reflect(unit_direction, hit.normal)
                     ELSE Refract(unit_direction, hit.normal, ratio)
    IN  SRet(TRUE, [scattering EXCEPT
                      !.is_specular = TRUE,
                      !.distribution = NullPdf,
                      !.attenuation = VI(1, 1, 1),
                      !.specular = Ray(hit.p, direction, r.time)])

\* rnd: the point random_in_unit_sphere() returned
isotropic_scatter(m, r, hit, scattering, rnd) ==
    SRet(TRUE, [scattering EXCEPT
                  !.specular = Ray(hit.p, rnd, r.time),
                  !.attenuation = texture_value(m.map, hit.u, hit.v, hit.p),
                  !.is_specular = FALSE,
                  !.distribution = NullPdf])

\* virtual dispatch of material::scatter; sphere_rnd and unit_rnd are the
\* values the random source returns during the call
material_scatter(m, r, hit, scattering, sphere_rnd, unit_rnd) ==
    CASE m.kind = "lambertian"    -> lambertian_scatter(m, r, hit, scattering)
      [] m.kind = "metal"         -> metal_scatter(m, r, hit, scattering, sphere_rnd)
      [] m.kind = "dielectric"    -> dielectric_scatter(m, r, hit, scattering, unit_rnd)
      [] m.kind = "isotropic"     -> isotropic_scatter(m, r, hit, scattering, sphere_rnd)
      [] m.kind = "diffuse_light" -> SRet(FALSE, scattering)

-----------------------------------------------------------------------------
(* state                                                                   *)

VARIABLES
    call,       \* the last call of a hittable, material or pdf operation:
                \* its name, its arguments and what it returned
    picked,     \* the component the last mixture_pdf::generate call drew from
    est         \* one evaluation of ray_color: the invocation that is running,
                \* the invocations waiting for their recursive call, the
                \* value being returned, and a log of what each invocation did

vars == <<call, picked, est>>

\* no evaluation of ray_color is under way
EstIdle == [pc |-> "idle"]

\* the value of call.ret while call.done is FALSE: the operation has not run
Pending == "pending"

Returned(c, ret) == [c EXCEPT !.done = TRUE, !.ret = ret]

-----------------------------------------------------------------------------
(* the inputs of the hittable calls                                        *)

\* longest list of members a hittable_list is built with
MaxMembers == 3

Grey == V(Half, Half, Half)

RectXY1 == XYRect(I(0), I(2), I(0), I(2), I(1), Lambertian(Grey))
RectXY2 == XYRect(I(0), I(2), I(0), I(2), I(2), Metal(Grey, Zero))
RectXZ1 == XZRect(I(0), I(2), I(0), I(2), I(1), Lambertian(Grey))
RectYZ1 == YZRect(I(0), I(2), I(0), I(2), I(1), Lambertian(Grey))
Sphere1 == Sphere(VI(1, 1, 4), I(1), Dielectric(R(3, 2)))

Rects == {RectXY1, RectXY2, RectXZ1, RectYZ1}

Members == Rects \cup {Sphere1}

Axis == {-1, 0, 1}

Directions == {VI(x, y, z) : x \in Axis, y \in Axis, z \in Axis} \ {VI(0, 0, 0)}

RectOrigins == {VI(1, 1, 0), VI(1, 1, 1), VI(0, 0, 0), VI(1, 1, 3)}

ListOrigins == {VI(1, 1, 0), VI(0, 0, 0)}

\* the members lie at z >= 0: the rays that can meet more than one of them
ListDirections == {d \in Directions : FGe(d[3], Zero)}

Intervals == {<<TMin, PosInf>>, <<TMin, R(3, 2)>>, <<Zero, One>>}

ListIntervals == {<<TMin, PosInf>>, <<TMin, R(3, 2)>>}

RECURSIVE SeqsUpTo(_, _)
SeqsUpTo(S, n) ==
    IF n = 0 THEN {<<>>}
    ELSE LET shorter == SeqsUpTo(S, n - 1)
         IN  shorter \cup {Append(q, x) : q \in {w \in shorter : Len(w) = n - 1}, x \in S}

-----------------------------------------------------------------------------------------------------------------------------------------------------
(* the hittable calls                                                      *)

HitCall(op, o, r, t_min, t_max) ==
    [op |-> op, obj |-> o, r |-> r, t_min |-> t_min, t_max |-> t_max,
     done |-> FALSE, ret |-> Pending]

RectCalls ==
    {HitCall("rect_hit", o, Ray(org, dir, Zero), iv[1], iv[2]) :
        o \in Rects, org \in RectOrigins, dir \in Directions, iv \in Intervals}

ListCalls ==
    {HitCall("list_hit", HittableList(objs), Ray(org, dir, Zero), iv[1], iv[2]) :
        objs \in SeqsUpTo(Members, MaxMembers), org \in ListOrigins,
        dir \in ListDirections, iv \in ListIntervals}

\* xyrect::hit, xzrect::hit, yzrect::hit
HitRect ==
    /\ call.op = "rect_hit" /\ ~call.done
    /\ call' = Returned(call, member_hit(call.obj, call.r, call.t_min, call.t_max,
                                         UndefRec))
    /\ UNCHANGED <<picked, est>>

\* hittable_list::hit
HitList ==
    /\ call.op = "list_hit" /\ ~call.done
    /\ call' = Returned(call, hittable_list_hit(call.obj, call.r, call.t_min,
                                                call.t_max, UndefRec))
    /\ UNCHANGED <<picked, est>>

InitHit == est = EstIdle /\ call \in RectCalls \cup ListCalls /\ picked = 0

NextHit == HitRect \/ HitList

SpecHit == InitHit /\ [][NextHit]_vars

-----------------------------------------------------------------------------
(* claims about the hittable calls                                         *)

InInterval(t, lo, hi) == FLe(lo, t) /\ FLe(t, hi)

\* what each member of the list reports when tested alone on the whole interval
Individual(c) ==
    [i \in 1..Len(c.obj.objects) |->
        member_hit(c.obj.objects[i], c.r, c.t_min, c.t_max, UndefRec)]

HitSet(ind) == {i \in DOMAIN ind : ind[i].hit}

\* every member that reports a hit reports a t inside the interval it was given
HonourBound(c, ind) ==
    \A i \in HitSet(ind) : InInterval(ind[i].rec.t, c.t_min, c.t_max)

Rotated(q) == IF Len(q) < 2 THEN q ELSE Append(Tail(q), Head(q))

SwappedFront(q) == IF Len(q) < 2 THEN q ELSE <<q[2], q[1]>> \o SubSeq(q, 3, Len(q))

ListHitOf(c, objs) ==
    hittable_list_hit(HittableList(objs), c.r, c.t_min, c.t_max, UndefRec)

SameHitAndT(a, b) == a.hit = b.hit /\ (a.hit => a.rec.t = b.rec.t)

\* C1: hittable_list::hit reports a hit exactly when some member reports one
\* in [t_min, t_max]; the record returned is that of a member whose t is the
\* least among the members that hit; and the answer and its t are the same
\* when the list is rotated or its first two members are swapped (the two
\* moves that generate every reordering), given members that honour the bound.
C1_ListHitClosest ==
    (call.op = "list_hit" /\ call.done) =>
        LET ind == Individual(call)
        IN  HonourBound(call, ind) =>
        /\ call.ret.hit <=> HitSet(ind) # {}
        /\ call.ret.hit =>
             \E i \in HitSet(ind) :
                /\ call.ret.rec = ind[i].rec
                /\ \A j \in HitSet(ind) : FLe(ind[i].rec.t, ind[j].rec.t)
        /\ SameHitAndT(call.ret, ListHitOf(call, Rotated(call.obj.objects)))
        /\ SameHitAndT(call.ret, ListHitOf(call, SwappedFront(call.obj.objects)))

\* a list in which a farther member that also hits follows the closest one,
\* answered with the closest member's record
C1_Witness ==
    /\ call.op = "list_hit" /\ call.done
    /\ call.ret.hit
    /\ LET ind == Individual(call)
       IN  /\ HonourBound(call, ind)
           /\ \E i, j \in HitSet(ind) :
                 /\ i < j
                 /\ FLt(ind[i].rec.t, ind[j].rec.t)
                 /\ call.ret.rec.t = ind[i].rec.t
                 /\ call.ret.rec.mat # ind[j].rec.mat

\* the index of the coordinate a rectangle fixes, and the unit vector along it
FixedAxis(o) == CASE o.kind = "xyrect" -> 3 [] o.kind = "xzrect" -> 2 [] o.kind = "yzrect" -> 1
FreeAxisA(o) == CASE o.kind = "xyrect" -> 1 [] o.kind = "xzrect" -> 1 [] o.kind = "yzrect" -> 2
FreeAxisB(o) == CASE o.kind = "xyrect" -> 2 [] o.kind = "xzrect" -> 3 [] o.kind = "yzrect" -> 3
AxisVector(k) == <<IF k = 1 THEN One ELSE Zero, IF k = 2 THEN One ELSE Zero,
                   IF k = 3 THEN One ELSE Zero>>

\* the ray crosses the rectangle's plane inside the rectangle, at a t of the interval
Crosses(c) ==
    LET f == FixedAxis(c.obj)
        t == FDiv(FSub(c.obj.k, c.r.origin[f]), c.r.direction[f])
        a == At(c.r, t)[FreeAxisA(c.obj)]
        b == At(c.r, t)[FreeAxisB(c.obj)]
    IN  /\ c.r.direction[f] # Zero
        /\ InInterval(t, c.t_min, c.t_max)
        /\ InInterval(a, c.obj.a0, c.obj.a1)
        /\ InInterval(b, c.obj.b0, c.obj.b1)

\* C7: for a ray that crosses the rectangle, hit reports a normal that is plus
\* or minus the unit vector along the rectangle's fixed axis and opposes the
\* ray direction.
C7_RectNormalAlongFixedAxis ==
    (call.op = "rect_hit" /\ call.done /\ Crosses(call)) =>
        /\ call.ret.hit
        /\ call.ret.rec.normal \in {AxisVector(FixedAxis(call.obj)),
                                    VNeg(AxisVector(FixedAxis(call.obj)))}
        /\ FLt(Dot(call.r.direction, call.ret.rec.normal), Zero)

\* C8: a ray parallel to the rectangle's plane is no hit, and no hit carries a
\* NaN t, position, u or v.
C8_ParallelRayIsNoHit ==
    (call.op = "rect_hit" /\ call.done) =>
        /\ call.r.direction[FixedAxis(call.obj)] = Zero => ~call.ret.hit
        /\ call.ret.hit =>
             /\ ~IsNaN(call.ret.rec.t) /\ ~VHasNaN(call.ret.rec.p)
             /\ ~IsNaN(call.ret.rec.u) /\ ~IsNaN(call.ret.rec.v)

-----------------------------------------------------------------------------
(* the pdf calls                                                           *)

LightA == Sphere(VI(1, 5, 1), I(3), DiffuseLight(VI(7, 7, 7)))
LightB == Sphere(VI(1, 0, 6), I(4), DiffuseLight(VI(7, 7, 7)))
LightC == Sphere(VI(6, 0, 1), I(3), DiffuseLight(VI(7, 7, 7)))

Lights == {LightA, LightB, LightC}

PdfOrigins == {VI(1, 0, 1), VI(0, 0, 0)}

\* directions of rational length
Units == {VI(1, 0, 0), VI(0, 1, 0), VI(0, 0, 1), VI(3, 4, 0), VI(4, 3, 0), VI(0, 3, 4),
          VI(0, 4, 3), VI(3, 0, 4), VI(4, 0, 3), VI(-3, 4, 0), VI(0, 4, -3), VI(0, 2, 0)}

PdfDirections == Units \cup {VNeg(d) : d \in Units}

\* the values random_double() returns
UniformDraws == {Zero, R(1, 4), Half, R(3, 4)}

ListPdfCalls ==
    {[op |-> "list_pdf_value", obj |-> HittableList(objs), origin |-> org,
      direction |-> dir, done |-> FALSE, ret |-> Pending] :
        objs \in SeqsUpTo(Lights, MaxMembers), org \in PdfOrigins, dir \in PdfDirections}

Components ==
    {CosinePdf(VI(0, 1, 0)), CosinePdf(VI(0, 0, 1)),
     HittablePdf(HittableList(<<LightA, LightB>>), VI(1, 0, 1)),
     HittablePdf(HittableList(<<LightC>>), VI(1, 0, 1))}

MixtureCalls ==
    {[op |-> "mixture_value", obj |-> MixturePdf(p0, p1), direction |-> VI(0, 0, 0),
      done |-> FALSE, ret |-> Pending] : p0 \in Components, p1 \in Components}

\* hittable_list::pdf_value
ListPdfValue ==
    /\ call.op = "list_pdf_value" /\ ~call.done
    /\ call' = Returned(call, hittable_list_pdf_value(call.obj, call.origin, call.direction))
    /\ UNCHANGED <<picked, est>>

\* mixture_pdf::generate: the coin decides which component generates
MixtureGenerate ==
    /\ call.op = "mixture_value"
    /\ \E rnd \in UniformDraws : picked' = mixture_pdf_pick(rnd)
    /\ UNCHANGED <<call, est>>

\* mixture_pdf::value, for any direction
MixtureValue ==
    /\ call.op = "mixture_value" /\ ~call.done
    /\ \E dir \in PdfDirections :
          call' = [call EXCEPT !.direction = dir, !.done = TRUE,
                               !.ret = mixture_pdf_value(call.obj, dir)]
    /\ UNCHANGED <<picked, est>>

InitPdf == est = EstIdle /\ call \in ListPdfCalls \cup MixtureCalls /\ picked = 0

NextPdf == ListPdfValue \/ MixtureGenerate \/ MixtureValue

SpecPdf == InitPdf /\ [][NextPdf]_vars

-----------------------------------------------------------------------------
(* claims about the pdf calls                                              *)

MemberDensity(c, i) == sphere_pdf_value(c.obj.objects[i], c.origin, c.direction)

RECURSIVE DensitySum(_, _)
DensitySum(c, i) == IF i = 0 THEN Zero ELSE FAdd(DensitySum(c, i - 1), MemberDensity(c, i))

\* C5: the mixture's density at any direction is 0.5*d1 + 0.5*d2, the two
\* components' densities there, whatever component the last generate drew from.
C5_MixtureDensity ==
    (call.op = "mixture_value" /\ call.done) =>
        call.ret = FDiv(FAdd(component_value(call.obj.pdfs[1], call.direction),
                             component_value(call.obj.pdfs[2], call.direction)), I(2))

\* a density asked after generate drew from the component that is zero there
C5_Witness ==
    /\ call.op = "mixture_value" /\ call.done /\ picked = 1
    /\ component_value(call.obj.pdfs[1], call.direction) = Zero
    /\ FGt(component_value(call.obj.pdfs[2], call.direction), Zero)
    /\ call.obj.pdfs[1].kind = "hittable_pdf" /\ call.obj.pdfs[2].kind = "cosine_pdf"
    /\ call.ret = FMul(Half, component_value(call.obj.pdfs[2], call.direction))

\* C6: pdf_value of a non-empty list of n members is the sum of the members'
\* densities divided by n; for two members with densities {0, d} it is d/2.
C6_ListPdfIsMean ==
    (call.op = "list_pdf_value" /\ call.done /\ Len(call.obj.objects) > 0) =>
        LET n == Len(call.obj.objects)
        IN  /\ call.ret = FDiv(DensitySum(call, n), I(n))
            /\ (n = 2 /\ MemberDensity(call, 1) = Zero) =>
                   call.ret = FDiv(MemberDensity(call, 2), I(2))
            /\ (n = 2 /\ MemberDensity(call, 2) = Zero) =>
                   call.ret = FDiv(MemberDensity(call, 1), I(2))

\* a two-member list with densities {0, d}, d > 0
C6_Witness ==
    /\ call.op = "list_pdf_value" /\ call.done /\ Len(call.obj.objects) = 2
    /\ MemberDensity(call, 1) = Zero
    /\ FGt(MemberDensity(call, 2), Zero)
    /\ call.ret = FDiv(MemberDensity(call, 2), I(2))

-----------------------------------------------------------------------------
(* the material calls                                                      *)

\* the surface the material calls are made on: the plane y = 0, outward normal +y
Floor(mat) == XZRect(I(-10), I(10), I(-10), I(10), I(0), mat)

\* rays that reach the surface from above (front face) and from below (back face)
Incoming ==
    LET down == {VI(0, -1, 0), VI(3, -4, 0), VI(4, -3, 0), VI(0, -4, 3), VI(0, -3, 4)}
    IN  {Ray(VI(0, 4, 0), d, Zero) : d \in down}
          \cup {Ray(VI(0, -4, 0), VNeg(d), Zero) : d \in down}

\* the fuzz a metal is constructed with
FuzzArgs == {R(-1, 2), Zero, Half, One, I(2)}

\* the points random_in_unit_sphere() returns
SphereDraws == {VI(0, 0, 0), V(Zero, R(-9, 10), Zero), V(Zero, R(9, 10), Zero),
                V(Half, Zero, Zero), V(Zero, R(-1, 2), Half)}

\* the indices of refraction a dielectric is constructed with
IorArgs == {R(3, 2), R(4, 3)}

HitOn(mat, r) == xzrect_hit(Floor(mat), r, TMin, PosInf, UndefRec).rec

MetalCalls ==
    {[op |-> "metal_scatter", mat |-> Metal(Grey, f), arg |-> f, r |-> r,
      hit |-> HitOn(Metal(Grey, f), r), rnd |-> rnd, done |-> FALSE, ret |-> Pending] :
        f \in FuzzArgs, r \in Incoming, rnd \in SphereDraws}

DielectricCalls ==
    {[op |-> "dielectric_scatter", mat |-> Dielectric(ior), arg |-> ior, r |-> r,
      hit |-> HitOn(Dielectric(ior), r), rnd |-> rnd, done |-> FALSE, ret |-> Pending] :
        ior \in IorArgs, r \in Incoming, rnd \in UniformDraws}

\* one material of every variant
Materials == {Lambertian(Grey), Metal(Grey, Half), Dielectric(R(3, 2)),
              DiffuseLight(VI(7, 7, 7)), Isotropic(Grey)}

ScatterCalls ==
    {[op |-> "scatter", mat |-> m, r |-> r, hit |-> HitOn(m, r), sphere_rnd |-> srnd,
      unit_rnd |-> urnd, done |-> FALSE, ret |-> Pending] :
        m \in Materials, r \in Incoming, srnd \in SphereDraws, urnd \in UniformDraws}

\* a sphere hit whose normal is (4/5, 3/5, 0)
SlantedHit ==
    sphere_hit(Sphere(VI(0, 0, 0), I(5), Lambertian(Grey)),
               Ray(VI(8, 6, 0), VI(-4, -3, 0), Zero), TMin, PosInf, UndefRec).rec

DensityCalls ==
    {[op |-> "scattering_pdf", mat |-> Lambertian(Grey), r |-> r, hit |-> h,
      direction |-> dir, done |-> FALSE, ret |-> Pending] :
        r \in {Ray(VI(0, 4, 0), VI(0, -1, 0), Zero)},
        h \in {HitOn(Lambertian(Grey), q) : q \in Incoming} \cup {SlantedHit},
        dir \in PdfDirections}

\* material::scatter, on any variant
Scatter ==
    /\ call.op = "scatter" /\ ~call.done
    /\ call' = Returned(call, material_scatter(call.mat, call.r, call.hit, UndefScatter,
                                               call.sphere_rnd, call.unit_rnd))
    /\ UNCHANGED <<picked, est>>

\* lambertian::scattering_pdf for a direction, next to the value at that
\* direction of the distribution lambertian::scatter builds on the same hit
ScatteringPdf ==
    /\ call.op = "scattering_pdf" /\ ~call.done
    /\ \E sc \in {lambertian_scatter(call.mat, call.r, call.hit, UndefScatter)} :
          call' = Returned(call,
                    [density |-> lambertian_scattering_pdf(call.mat, call.r, call.hit,
                                     Ray(call.hit.p, call.direction, Zero)),
                     sampled |-> cosine_pdf_value(sc.scattering.distribution,
                                                  call.direction)])
    /\ UNCHANGED <<picked, est>>

\* metal::scatter
MetalScatter ==
    /\ call.op = "metal_scatter" /\ ~call.done
    /\ call' = Returned(call, metal_scatter(call.mat, call.r, call.hit, UndefScatter,
                                            call.rnd))
    /\ UNCHANGED <<picked, est>>

\* dielectric::scatter
DielectricScatter ==
    /\ call.op = "dielectric_scatter" /\ ~call.done
    /\ call' = Returned(call, dielectric_scatter(call.mat, call.r, call.hit, UndefScatter,
                                                 call.rnd))
    /\ UNCHANGED <<picked, est>>

InitMat ==
    /\ est = EstIdle
    /\ call \in MetalCalls \cup DielectricCalls \cup ScatterCalls \cup DensityCalls
    /\ picked = 0

NextMat == MetalScatter \/ DielectricScatter \/ Scatter \/ ScatteringPdf

SpecMat == InitMat /\ [][NextMat]_vars

-----------------------------------------------------------------------------
(* claims about the material calls                                         *)

\* C9: metal's scatter reports no scattering whenever the perturbed reflected
\* direction does not point away from the surface, and the fuzz factor used
\* lies in [0,1] whatever the constructor was given.
C9_MetalRejectsIntoSurface ==
    (call.op = "metal_scatter" /\ call.done) =>
        /\ InInterval(call.mat.fuzz, Zero, One)
        /\ FLe(Dot(call.ret.scattering.specular.direction, call.hit.normal), Zero)
              => ~call.ret.ok

\* the outcome of a dielectric scatter, read off the call
ScatterDir(c) == c.ret.scattering.specular.direction
UnitIn(c)     == UnitVector(c.r.direction)
CosTheta(c)   == FMin(Dot(VNeg(UnitIn(c)), c.hit.normal), One)
SinSquared(c) == FSub(One, FMul(CosTheta(c), CosTheta(c)))
Ratio(c)      == IF c.hit.front_face THEN FDiv(One, c.arg) ELSE c.arg
\* ratio * sin(theta) > 1, on the squares
TotalInternal(c) == FGt(FMul(FMul(Ratio(c), Ratio(c)), SinSquared(c)), One)

\* C10: with ratio = 1/index on a front-face hit and index otherwise, the
\* outcome is the reflected direction whenever ratio*sin(theta) > 1, for every
\* draw; an outcome that is not the reflection is the refraction at that
\* ratio, and then ratio*sin(theta) <= 1 and the reflectance is at most the draw.
C10_DielectricReflectsOnTIR ==
    (call.op = "dielectric_scatter" /\ call.done) =>
        /\ call.ret.ok
        /\ TotalInternal(call) => ScatterDir(call) = Reflect(UnitIn(call), call.hit.normal)
        /\ ScatterDir(call) # Reflect(UnitIn(call), call.hit.normal) =>
              /\ ~TotalInternal(call)
              /\ FLe(reflectance(CosTheta(call), Ratio(call)), call.rnd)
              /\ ScatterDir(call) = Refract(UnitIn(call), call.hit.normal, Ratio(call))

\* index 1.5, back-face hit, sine 4/5 > 1/1.5, and a draw above the
\* reflectance: reflected all the same
C10_Witness ==
    /\ call.op = "dielectric_scatter" /\ call.done
    /\ call.arg = R(3, 2) /\ ~call.hit.front_face
    /\ SinSquared(call) = R(16, 25)
    /\ FGt(call.rnd, reflectance(CosTheta(call), Ratio(call)))
    /\ ScatterDir(call) = Reflect(UnitIn(call), call.hit.normal)

\* C11: a scatter that succeeds is specular, or else carries a distribution
\* that is present (not null); the third shape is the scatter that fails.
C11_ScatterOutcomeTagged ==
    (call.op = "scatter" /\ call.done /\ call.ret.ok) =>
        \/ call.ret.scattering.is_specular
        \/ call.ret.scattering.distribution.kind # "null"

\* the cosine between the hit normal and the direction asked about
CosineAt(c) == Dot(c.hit.normal, UnitVector(c.direction))

\* C12: lambertian's scattering density is max(0, cos theta)/pi, and equals the
\* value the cosine distribution built on the same normal reports, for every
\* normal and direction: both are 0 at cos theta = 0 and below the surface.
C12_DensityMatchesCosinePdf ==
    (call.op = "scattering_pdf" /\ call.done) =>
        /\ call.ret.density = FDiv(FMax(Zero, CosineAt(call)), Pi)
        /\ call.ret.density = call.ret.sampled
        /\ FLe(CosineAt(call), Zero) => (call.ret.density = Zero /\ call.ret.sampled = Zero)

\* a direction along the surface of the slanted hit: cos theta = 0, the one
\* value the two comparisons (< 0 and <= 0) treat differently
C12_Witness ==
    /\ call.op = "scattering_pdf" /\ call.done
    /\ call.hit.normal = V(R(4, 5), R(3, 5), Zero)
    /\ call.direction = VI(-3, 4, 0)
    /\ CosineAt(call) = Zero
    /\ call.ret.density = Zero /\ call.ret.sampled = Zero

-----------------------------------------------------------------------------
(* the wrapper and moving-sphere calls                                     *)

\* the shapes the wrappers hold: a one-sided light and two rectangles
Bulb == Sphere(VI(0, 0, 0), I(1), DiffuseLight(VI(7, 7, 7)))

Inner == {Bulb, RectXY1, RectXZ1}

Offsets == {VI(0, 0, 0), VI(1, 0, 0), VI(0, 2, -1)}

\* the angles of rotation, in degrees
Angles == {0}

WrapOrigins == {VI(0, 0, -4), VI(1, 0, -4), VI(0, 0, 0), VI(1, 1, 0), VI(1, 2, -5)}

WrapDirections == {VI(0, 0, 1), VI(0, 0, -1), VI(0, 1, 0), VI(1, 0, 0), VI(3, 0, 4),
                   VI(0, -3, 4)}

WrapRays == {Ray(org, dir, Zero) : org \in WrapOrigins, dir \in WrapDirections}

TranslateCalls ==
    {HitCall("translate_hit", Translate(obj, p), r, TMin, PosInf) :
        obj \in Inner, p \in Offsets, r \in WrapRays}

RotateCalls ==
    {HitCall("rotate_y_hit", RotateY(obj, angle), r, TMin, PosInf) :
        obj \in Inner, angle \in Angles, r \in WrapRays}

RotateNewCalls ==
    {[op |-> "rotate_y_new", ref |-> obj, angle |-> angle,
      done |-> FALSE, ret |-> Pending] : obj \in Inner, angle \in Angles}

\* moving spheres with time0 < time1; the first is the one main.cpp builds
\* (times 0 and 1, radius 0.2, the second centre above the first)
Movers ==
    {MovingSphere(VI(0, 0, 0), V(Zero, Half, Zero), Zero, One, R(1, 5), Lambertian(Grey)),
     MovingSphere(VI(0, 0, 0), VI(4, 0, 0), Zero, I(2), One, Lambertian(Grey)),
     MovingSphere(VI(1, 1, 1), VI(1, 1, 1), One, I(2), One, Lambertian(Grey))}

Times == {Zero, Half, One, I(2)}

MoverRays ==
    {Ray(org, VI(0, 0, 1), tm) :
        org \in {VI(0, 0, -4), VI(4, 0, -4), VI(-4, 0, -4), VI(1, 1, -4)}, tm \in Times}

CenterCalls ==
    {[op |-> "moving_sphere_center", obj |-> o, time |-> tm, done |-> FALSE,
      ret |-> Pending] : o \in Movers, tm \in Times}

MoverHitCalls ==
    {HitCall("moving_sphere_hit", o, r, TMin, PosInf) : o \in Movers, r \in MoverRays}

MoverBoxCalls ==
    {[op |-> "moving_sphere_bounding_box", obj |-> o, t0 |-> o.time0, t1 |-> o.time1,
      done |-> FALSE, ret |-> Pending] : o \in Movers}

\* translate::hit
TranslateHit ==
    /\ call.op = "translate_hit" /\ ~call.done
    /\ call' = Returned(call, translate_hit(call.obj, call.r, call.t_min, call.t_max,
                                            UndefRec))
    /\ UNCHANGED <<picked, est>>

\* rotate_y::hit
RotateYHit ==
    /\ call.op = "rotate_y_hit" /\ ~call.done
    /\ call' = Returned(call, rotate_y_hit(call.obj, call.r, call.t_min, call.t_max,
                                           UndefRec))
    /\ UNCHANGED <<picked, est>>

\* rotate_y::rotate_y
RotateYNew ==
    /\ call.op = "rotate_y_new" /\ ~call.done
    /\ call' = Returned(call, RotateY(call.ref, call.angle))
    /\ UNCHANGED <<picked, est>>

\* moving_sphere::center
MovingSphereCenter ==
    /\ call.op = "moving_sphere_center" /\ ~call.done
    /\ call' = Returned(call, moving_sphere_center(call.obj, call.time))
    /\ UNCHANGED <<picked, est>>

\* moving_sphere::hit
MovingSphereHit ==
    /\ call.op = "moving_sphere_hit" /\ ~call.done
    /\ call' = Returned(call, moving_sphere_hit(call.obj, call.r, call.t_min, call.t_max,
                                                UndefRec))
    /\ UNCHANGED <<picked, est>>

\* moving_sphere::bounding_box
MovingSphereBoundingBox ==
    /\ call.op = "moving_sphere_bounding_box" /\ ~call.done
    /\ call' = Returned(call, moving_sphere_bounding_box(call.obj, call.t0, call.t1))
    /\ UNCHANGED <<picked, est>>

InitWrap ==
    /\ est = EstIdle
    /\ call \in TranslateCalls \cup RotateCalls \cup RotateNewCalls \cup CenterCalls
                 \cup MoverHitCalls \cup MoverBoxCalls
    /\ picked = 0

NextWrap ==
    \/ TranslateHit \/ RotateYHit \/ RotateYNew
    \/ MovingSphereCenter \/ MovingSphereHit \/ MovingSphereBoundingBox

SpecWrap == InitWrap /\ [][NextWrap]_vars

-----------------------------------------------------------------------------
(* claims about the wrappers and the moving sphere                         *)

\* what the held shape reports for the ray with the origin moved by -offset
InnerOfTranslate(c) ==
    member_hit(c.obj.ref, Ray(VSub(c.r.origin, c.obj.position), c.r.direction, c.r.time),
               c.t_min, c.t_max, UndefRec)

\* what the held shape reports for the object-space ray
InnerOfRotate(c) ==
    member_hit(c.obj.ref,
               Ray(rotate_to_object(c.obj.sin_theta, c.obj.cos_theta, c.r.origin),
                   rotate_to_object(c.obj.sin_theta, c.obj.cos_theta, c.r.direction),
                   c.r.time),
               c.t_min, c.t_max, UndefRec)

\* C13: translate(S, o) reports a hit exactly when S does for the ray moved by
\* -o, with the same t, the position moved by +o and the same normal.
C13_TranslateMatchesInner ==
    (call.op = "translate_hit" /\ call.done) =>
        LET inner == InnerOfTranslate(call)
        IN  /\ call.ret.hit = inner.hit
            /\ call.ret.hit =>
                  /\ call.ret.rec.t = inner.rec.t
                  /\ call.ret.rec.p = VAdd(inner.rec.p, call.obj.position)
                  /\ call.ret.rec.normal = inner.rec.normal

BoxCorners(b) ==
    {<<x, y, z>> : x \in {b.min[1], b.max[1]}, y \in {b.min[2], b.max[2]},
                   z \in {b.min[3], b.max[3]}}

Least(S)    == CHOOSE x \in S : \A y \in S : FLe(x, y)
Greatest(S) == CHOOSE x \in S : \A y \in S : FGe(x, y)

\* C14: with sin^2 + cos^2 = 1, the map rotate_y::hit applies after delegating
\* undoes the map it applies before: ray origin and direction come back from
\* object space unchanged and keep their height; the reported position lies
\* on the world ray at the reported t, at the height of the held shape's
\* position; the reported normal is the held shape's normal under the map
\* back, at the same height; the constructor's box is the box of the held
\* shape's corners under that same map, with the held shape's vertical extent.
C14_RotateMapsAreInverse ==
    /\ (call.op = "rotate_y_hit" /\ call.done) =>
          LET sn == call.obj.sin_theta
              cs == call.obj.cos_theta
              inner == InnerOfRotate(call)
          IN  /\ rotate_to_world(sn, cs, rotate_to_object(sn, cs, call.r.origin))
                    = call.r.origin
              /\ rotate_to_world(sn, cs, rotate_to_object(sn, cs, call.r.direction))
                    = call.r.direction
              /\ rotate_to_object(sn, cs, call.r.origin)[2] = call.r.origin[2]
              /\ rotate_to_object(sn, cs, call.r.direction)[2] = call.r.direction[2]
              /\ (call.ret.hit /\ IsFinite(call.ret.rec.t)) =>
                    /\ call.ret.rec.p = At(call.r, call.ret.rec.t)
                    /\ call.ret.rec.p[2] = inner.rec.p[2]
                    /\ call.ret.rec.normal = rotate_to_world(sn, cs, inner.rec.normal)
                    /\ call.ret.rec.normal[2] = inner.rec.normal[2]
    /\ (call.op = "rotate_y_new" /\ call.done) =>
          LET world == {rotate_to_world(call.ret.sin_theta, call.ret.cos_theta, c) :
                           c \in BoxCorners(shape_bounding_box(call.ref))}
          IN  /\ \A i \in 1..3 :
                    /\ call.ret.bbox.min[i] = Least({w[i] : w \in world})
                    /\ call.ret.bbox.max[i] = Greatest({w[i] : w \in world})
              /\ call.ret.bbox.min[2] = shape_bounding_box(call.ref).min[2]
              /\ call.ret.bbox.max[2] = shape_bounding_box(call.ref).max[2]

\* C16: a hit reported through translate or rotate_y carries the front_face
\* flag the held shape reported for the object-space ray.
C16_WrapperKeepsOrientation ==
    /\ (call.op = "translate_hit" /\ call.done /\ call.ret.hit) =>
          call.ret.rec.front_face = InnerOfTranslate(call).rec.front_face
    /\ (call.op = "rotate_y_hit" /\ call.done /\ call.ret.hit) =>
          call.ret.rec.front_face = InnerOfRotate(call).rec.front_face

\* the box holds the sphere of the given radius at centre c
BoxHolds(b, c, radius) ==
    \A i \in 1..3 : FLe(b.min[i], FSub(c[i], radius)) /\ FGe(b.max[i], FAdd(c[i], radius))

\* the centre on the line from center0 (at time0) to center1 (at time1)
LinearCenter(o, time) ==
    VAdd(o.center0, VScale(FDiv(FSub(time, o.time0), FSub(o.time1, o.time0)),
                           VSub(o.center1, o.center0)))

\* C17: the centre of a moving sphere is center0 at time0 and center1 at
\* time1, linear between; a ray is intersected with the sphere at that centre;
\* the box for [time0, time1] holds the sphere at center0 and at center1.
C17_MovingSphereReachesCenter1 ==
    /\ (call.op = "moving_sphere_center" /\ call.done) =>
          /\ call.time = call.obj.time0 => call.ret = call.obj.center0
          /\ call.time = call.obj.time1 => call.ret = call.obj.center1
          /\ InInterval(call.time, call.obj.time0, call.obj.time1) =>
                call.ret = LinearCenter(call.obj, call.time)
    /\ (call.op = "moving_sphere_hit" /\ call.done
          /\ InInterval(call.r.time, call.obj.time0, call.obj.time1)) =>
          call.ret.hit =
             sphere_hit(Sphere(LinearCenter(call.obj, call.r.time), call.obj.radius,
                               call.obj.mat),
                        call.r, call.t_min, call.t_max, UndefRec).hit
    /\ (call.op = "moving_sphere_bounding_box" /\ call.done) =>
          /\ BoxHolds(call.ret, call.obj.center0, call.obj.radius)
          /\ BoxHolds(call.ret, call.obj.center1, call.obj.radius)

-----------------------------------------------------------------------------
(* box.h                                                                   *)

\* box(p0, p1, mat): the six sides, in the order the constructor adds them
Box(p0, p1, mat) ==
    HittableList(<<XYRect(p0[1], p1[1], p0[2], p1[2], p1[3], mat),
                   XYRect(p0[1], p1[1], p0[2], p1[2], p0[3], mat),
                   XZRect(p0[1], p1[1], p0[3], p1[3], p1[2], mat),
                   XZRect(p0[1], p1[1], p0[3], p1[3], p0[2], mat),
                   YZRect(p0[2], p1[2], p0[3], p1[3], p1[1], mat),
                   YZRect(p0[2], p1[2], p0[3], p1[3], p0[1], mat)>>)

-----------------------------------------------------------------------------
(* main.cpp: ray_color                                                     *)

\* the largest bounce budget an evaluation starts with
MaxDepth == 3

\* an estimator that returns white when the budget is exhausted
exhausted_color_white == VI(1, 1, 1)

\* what ray_color returns when the budget is exhausted
exhausted_color == Black

\* the blue sky gradient ray_color returns for a ray that hits nothing
sky_color(r) ==
    LET unit_direction == UnitVector(r.direction)
        t == FMul(Half, FAdd(unit_direction[2], One))
    IN  VAdd(VScale(FSub(One, t), VI(1, 1, 1)),
             VScale(t, V(Half, R(7, 10), One)))

\* an estimator that spends two of the budget per bounce
next_depth_two(depth) == depth - 2

\* the budget ray_color passes to its recursive call
next_depth(depth) == depth - 1

\* ray_color is written against scatter(r, rec, attenuation, scattered);
\* material.h declares scatter(r, hit, scatter_record&).  The call is modelled
\* with attenuation = scattering.attenuation and scattered = scattering.specular.
\* lambertian::scatter does not set the ray: the recursive call is then made
\* on the ray() the scatter_record was constructed with.
scattered_ray(sc) == sc.scattering.specular

\* the scenes: a diffuse floor and side wall under a spherical light, and a
\* closed box of mirrors
LitRoom ==
    [world  |-> HittableList(<<Floor(Lambertian(Grey)),
                               YZRect(I(-10), I(10), I(-10), I(10), I(9),
                                      Lambertian(V(Half, R(1, 4), One))),
                               LightA>>),
     lights |-> HittableList(<<LightA>>)]

MirrorBox ==
    [world  |-> Box(VI(0, 0, 0), VI(2, 2, 2), Metal(V(One, Half, R(1, 4)), Zero)),
     lights |-> HittableList(<<>>)]

Scenes == {LitRoom, MirrorBox}

CameraRays ==
    {Ray(VI(1, 1, 1), d, Zero) :
        d \in {VI(0, -1, 0), VI(0, 1, 0), VI(0, 0, 1), VI(1, 0, 0), VI(4, -3, 0)}}

EstStart(scene, r, n) ==
    [pc |-> "call", world |-> scene.world, lights |-> scene.lights,
     r |-> r, depth |-> n, n0 |-> n, stack |-> <<>>, value |-> Black, log |-> <<>>]

\* what one invocation did, for the log
Entry(kind, r, depth, rec, scattering, nhit, sub, value) ==
    [kind |-> kind, r |-> r, depth |-> depth, rec |-> rec, scattering |-> scattering,
     nhit |-> nhit, sub |-> sub, value |-> value]

\* one invocation of ray_color, from its entry to its return or to its
\* recursive call
RayColorEnter ==
    /\ est.pc = "call"
    /\ IF est.depth <= 0
       THEN est' = [est EXCEPT !.pc = "return", !.value = exhausted_color,
                       !.log = Append(@, Entry("exhausted", est.r, est.depth, UndefRec,
                                               UndefScatter, 0, Black, exhausted_color))]
       ELSE \E res \in {hittable_list_hit(est.world, est.r, TMin, PosInf, UndefRec)} :
                IF res.hit
                THEN \E sphere_rnd \in SphereDraws, unit_rnd \in UniformDraws :
                     \E sc \in {material_scatter(res.rec.mat, est.r, res.rec,
                                                  UndefScatter, sphere_rnd, unit_rnd)} :
                            IF sc.ok
                            THEN est' = [est EXCEPT
                                    !.stack = Append(@, [r |-> est.r, depth |-> est.depth,
                                                         rec |-> res.rec,
                                                         scattering |-> sc.scattering]),
                                    !.r = scattered_ray(sc),
                                    !.depth = next_depth(est.depth)]
                            ELSE est' = [est EXCEPT !.pc = "return", !.value = Black,
                                    !.log = Append(@, Entry("terminal", est.r, est.depth,
                                                            res.rec, sc.scattering, 1,
                                                            Black, Black))]
                ELSE est' = [est EXCEPT !.pc = "return", !.value = sky_color(est.r),
                                !.log = Append(@, Entry("miss", est.r, est.depth, UndefRec,
                                                        UndefScatter, 1, Black,
                                                        sky_color(est.r)))]
    /\ UNCHANGED <<call, picked>>

\* a recursive call returns to the invocation that made it, which returns
\* attenuation * the value; the outermost return ends the evaluation
RayColorReturn ==
    /\ est.pc = "return"
    /\ IF est.stack = <<>>
       THEN est' = [est EXCEPT !.pc = "done"]
       ELSE LET f == est.stack[Len(est.stack)]
                v == VMul(f.scattering.attenuation, est.value)
            IN  est' = [est EXCEPT
                    !.stack = SubSeq(@, 1, Len(@) - 1),
                    !.value = v,
                    !.log = Append(@, Entry("scattered", f.r, f.depth, f.rec,
                                            f.scattering, 1, est.value, v))]
    /\ UNCHANGED <<call, picked>>

InitEst ==
    /\ call = [op |-> "ray_color", done |-> FALSE]
    /\ picked = 0
    /\ est \in {EstStart(scene, r, n) : scene \in Scenes, r \in CameraRays, n \in 0..MaxDepth}

NextEst == RayColorEnter \/ RayColorReturn

SpecEst == InitEst /\ [][NextEst]_vars

\* an evaluation that has started runs on: ray_color is sequential code that
\* does not block
FairSpecEst == SpecEst /\ WF_vars(NextEst)

-----------------------------------------------------------------------------
(* claims about ray_color                                                  *)

\* the invocation that returned last, and the one it had called
Last   == est.log[Len(est.log)]
Callee == est.log[Len(est.log) - 1]

\* the mixture the estimator is to sample a non-specular hit with
MixtureAt(e) ==
    MixturePdf(HittablePdf(est.lights, e.rec.p), e.scattering.distribution)

\* C2: an invocation whose hit scatters non-specularly continues in a
\* direction drawn from the mixture of the light-directed pdf and the
\* material's distribution, one the mixture gives a positive density, and
\* returns emission + attenuation * materialScatteringDensity(direction) *
\* (the value of the recursive call) / mixtureDensity(direction), the density
\* being that of the same mixture at that direction.
C2_NonSpecularIsWeighted ==
    (/\ est.pc \in {"return", "done"} /\ Len(est.log) > 1
     /\ Last.kind = "scattered"
     /\ Last.scattering.is_specular = FALSE
     /\ Last.scattering.distribution.kind # "null"
     /\ Len(est.lights.objects) > 0) =>
        /\ FGt(mixture_pdf_value(MixtureAt(Last), Callee.r.direction), Zero)
        /\ Last.value =
            VAdd(material_emitted(Last.rec.mat, Last.r, Last.rec, Last.rec.u, Last.rec.v,
                                  Last.rec.p),
                 VScale(FDiv(material_scattering_pdf(Last.rec.mat, Last.r, Last.rec,
                                                     Callee.r),
                             mixture_pdf_value(MixtureAt(Last), Callee.r.direction)),
                        VMul(Last.scattering.attenuation, Last.sub)))

\* C3: an invocation whose hit does not scatter returns the emission at the
\* hit point: the emitted color on the front face of an emissive surface.
C3_TerminalReturnsEmission ==
    (est.pc \in {"return", "done"} /\ Len(est.log) > 0 /\ Last.kind = "terminal") =>
        Last.value = material_emitted(Last.rec.mat, Last.r, Last.rec, Last.rec.u,
                                      Last.rec.v, Last.rec.p)

\* every invocation but the innermost hit a surface that scattered, and the
\* innermost ran out of budget
AllScattered ==
    /\ Len(est.log) = est.n0 + 1
    /\ est.log[1].kind = "exhausted"
    /\ \A k \in 2..Len(est.log) : est.log[k].kind = "scattered"

\* C4: an invocation with budget <= 0 returns black and does not intersect
\* the scene; an evaluation in which every bounce hits a scattering surface
\* returns black for every initial budget.
C4_ExhaustedIsBlack ==
    /\ \A k \in 1..Len(est.log) :
          est.log[k].depth <= 0 =>
             /\ est.log[k].kind = "exhausted"
             /\ est.log[k].value = Black
             /\ est.log[k].nhit = 0
    /\ (est.pc = "done" /\ AllScattered) => est.value = Black

\* three bounces between mirrors of attenuation (1, 1/2, 1/4), then black
C4_Witness ==
    /\ est.pc = "done" /\ est.n0 >= 3 /\ AllScattered
    /\ \A k \in 2..Len(est.log) :
          /\ est.log[k].rec.mat.kind = "metal"
          /\ est.log[k].scattering.attenuation = V(One, Half, R(1, 4))
    /\ est.value = Black

\* the invocations made so far: the ones that returned, the ones waiting for
\* their recursive call, and the one running
Invocations ==
    Len(est.log) + Len(est.stack) + (IF est.pc = "call" THEN 1 ELSE 0)

\* the budget falls by exactly one per level, the depth of the recursion is at
\* most n, at most n + 1 invocations are made, one per budget value
BoundedRecursion ==
    /\ Len(est.stack) <= est.n0
    /\ est.pc = "call" => est.depth = est.n0 - Len(est.stack)
    /\ \A k \in 1..Len(est.stack) : est.stack[k].depth = est.n0 - (k - 1)
    /\ Invocations <= est.n0 + 1
    /\ \A k \in 1..(Len(est.log) - 1) : est.log[k + 1].depth = est.log[k].depth + 1

\* C15: for every scene and budget n >= 0 an evaluation ends; every invocation
\* makes at most one recursive invocation, with the budget less by exactly
\* one, so the depth stays within n and there are at most n + 1 invocations.
C15_EvaluationTerminates == [](BoundedRecursion) /\ <>(est.pc = "done")

\* an evaluation that used the whole budget: n + 1 invocations, then done
C15_Witness ==
    /\ est.pc = "done" /\ est.n0 = MaxDepth
    /\ Len(est.log) = est.n0 + 1
    /\ est.log[1].depth = 0

-----------------------------------------------------------------------------
(* all of it: every call and every evaluation                              *)

Init == InitHit \/ InitPdf \/ InitMat \/ InitEst \/ InitWrap

Next == NextHit \/ NextPdf \/ NextMat \/ NextEst \/ NextWrap

Spec == Init /\ [][Next]_vars

====
